---- MODULE Spec2Model ----
\* Clustering orchestration of the gallary model service: the synchronous
\* request (routers/clustering.py perform_clustering), the asynchronous job
\* (submit_clustering, run_clustering_async, report_*, get_clustering_status)
\* and the streaming call (grpc/server.py ClusterStream over
\* services/clustering_service.py ClusteringService.cluster).
\*
\* UMAP and HDBSCAN are external libraries: the model keeps the arguments they
\* are called with and draws their outcome (the label vector, or an exception)
\* from bounded sets.  Floating point payload that is only carried through
\* (min_dist, cluster_selection_epsilon, cluster_selection_method, the
\* membership probabilities and their average) is left out of the records.
EXTENDS Integers, Sequences, FiniteSets, TLC

\* ------------------------------------------------------------------ bounds

\* Largest number of embeddings (and of image ids) in a request.
MaxN == 6
\* Largest number of embeddings in the requests answered with every label
\* vector.
MaxLabelledN == 4
\* Largest cluster id the clusterer hands out.
MaxLabel == 1

\* ------------------------------------------------------- program constants

\* The label HDBSCAN gives to a noise point.
NOISE == -1

\* Python's None for an Optional value; Some(x) is a present value.
None == <<>>
Some(x) == <<x>>

Min(a, b) == IF a <= b THEN a ELSE b
Max(a, b) == IF a >= b THEN a ELSE b

\* ------------------------------------------------------------------ inputs

Metrics == {"cosine", "euclidean"}
NComponentsValues == {2, 3}
NNeighborsValues == {2, 3}
MinClusterSizeValues == {2, 3}
MinSamplesValues == {None, Some(3)}
DimValues == {2, 3}

\* image_ids of a request with m ids: distinct, and distinct from positions.
ImageIdsOf(m) == [i \in 1..m |-> 100 + i]

UMAPParamsSet ==
    [enabled : BOOLEAN, n_components : NComponentsValues,
     n_neighbors : NNeighborsValues]

HDBSCANParamsSet ==
    [min_cluster_size : MinClusterSizeValues, min_samples : MinSamplesValues,
     metric : Metrics]

\* A request: the number of embeddings n, their dimension dim, the image ids,
\* both parameter groups, and the correlation ids (go_task_id and callback_url
\* of the async submit, task_id of the streaming call).
RequestsOf(ns, ms, ups, hps) ==
    { [n |-> n, dim |-> d, image_ids |-> ImageIdsOf(m), umap_params |-> up,
       hdbscan_params |-> hp, go_task_id |-> 7, callback_url |-> "http://go/cb",
       task_id |-> "s1"] :
      n \in ns, m \in ms, d \in DimValues, up \in ups, hp \in hps }

\* Every label vector the clusterer can return for n points.
LabelVectors(n) == [1..n -> NOISE..MaxLabel]

\* ------------------------------------------------- parameter normalisation

\* A plausible slip: >= where > is meant.
UmapSelectedAtEqual(req) ==
    req.umap_params.enabled /\ req.n >= req.umap_params.n_components

\* umap_params.enabled and len(embeddings) > umap_params.n_components
UmapSelected(req) ==
    req.umap_params.enabled /\ req.n > req.umap_params.n_components

\* The arguments umap.UMAP is constructed with.
ReducerArgs(req) ==
    [n_components |-> Min(req.umap_params.n_components, req.dim),
     n_neighbors |-> Min(req.umap_params.n_neighbors, req.n - 1)]

\* A plausible slip: the clamp to half of the points is forgotten.
MinClusterSizeNoCap(req) ==
    Max(req.hdbscan_params.min_cluster_size, 2)

\* min(params.min_cluster_size, len(embeddings) // 2), then max(., 2)
MinClusterSize(req) ==
    Max(Min(req.hdbscan_params.min_cluster_size, req.n \div 2), 2)

\* min_samples, clamped to len(embeddings) - 1 when it is set
MinSamples(req) ==
    IF req.hdbscan_params.min_samples = None
    THEN None
    ELSE Some(Min(req.hdbscan_params.min_samples[1], req.n - 1))

\* A plausible slip: the caller's metric is kept after a reduction.
RouterMetricCallers(umap_actually_used, req) == req.hdbscan_params.metric

\* The routers: "euclidean" if umap_actually_used else params.metric
RouterMetric(umap_actually_used, req) ==
    IF umap_actually_used THEN "euclidean" ELSE req.hdbscan_params.metric

\* The service passes metric="euclidean" whatever was asked for.
ServiceMetric(umap_actually_used, req) == "euclidean"

\* The keyword arguments hdbscan.HDBSCAN is constructed with.
ClustererArgs(req, metric) ==
    [min_cluster_size |-> MinClusterSize(req), min_samples |-> MinSamples(req),
     metric |-> metric]

\* params_used: the hdbscan group echoes the values handed to the clusterer,
\* the umap group is the request's own umap_params, or None.
ParamsUsed(req, metric, umap_actually_used) ==
    [hdbscan |-> ClustererArgs(req, metric),
     umap |-> IF umap_actually_used THEN Some(req.umap_params) ELSE None]

\* --------------------------------------------------------- result assembly

\* A plausible slip: the clusters are numbered 0, 1, ... in the order in which
\* they are met.
ClustersDictRenumbered(image_ids, labels) ==
    LET Put(d, label, img) ==
            IF \E k \in 1..Len(d) : d[k].label = label
            THEN [k \in 1..Len(d) |->
                    IF d[k].label = label
                    THEN [d[k] EXCEPT !.image_ids = Append(@, img)]
                    ELSE d[k]]
            ELSE Append(d, [label |-> label, image_ids |-> <<img>>])
        D[i \in 0..Len(labels)] ==
            IF i = 0 THEN <<>>
            ELSE IF labels[i] = NOISE THEN D[i - 1]
            ELSE Put(D[i - 1], labels[i], image_ids[i])
    IN [k \in 1..Len(D[Len(labels)]) |->
            [cluster_id |-> k - 1, image_ids |-> D[Len(labels)][k].image_ids]]

\* clusters_dict after the loop over enumerate(labels): the entries in
\* insertion order, each with the image ids appended in index order.
ClustersDict(image_ids, labels) ==
    LET Put(d, label, img) ==
            IF \E k \in 1..Len(d) : d[k].cluster_id = label
            THEN [k \in 1..Len(d) |->
                    IF d[k].cluster_id = label
                    THEN [d[k] EXCEPT !.image_ids = Append(@, img)]
                    ELSE d[k]]
            ELSE Append(d, [cluster_id |-> label, image_ids |-> <<img>>])
        D[i \in 0..Len(labels)] ==
            IF i = 0 THEN <<>>
            ELSE IF labels[i] = NOISE THEN D[i - 1]
            ELSE Put(D[i - 1], labels[i], image_ids[i])
    IN D[Len(labels)]

\* A plausible slip: the noise points are dropped.
NoiseIdsDropped(image_ids, labels) == <<>>

\* noise_ids after the same loop.
NoiseIds(image_ids, labels) ==
    LET F[i \in 0..Len(labels)] ==
            IF i = 0 THEN <<>>
            ELSE IF labels[i] = NOISE THEN Append(F[i - 1], image_ids[i])
            ELSE F[i - 1]
    IN F[Len(labels)]

\* A plausible slip: the list is left in dictionary order.
SortBySizeSkipped(results) == results

\* A plausible slip: an unstable ordering that puts a later equal-sized cluster first.
SortBySizeUnstable(results) ==
    LET Insert(sorted, x) ==
            LET k == Cardinality({j \in 1..Len(sorted) :
                        Len(sorted[j].image_ids) > Len(x.image_ids)})
            IN SubSeq(sorted, 1, k) \o <<x>> \o SubSeq(sorted, k + 1, Len(sorted))
        S[i \in 0..Len(results)] ==
            IF i = 0 THEN <<>> ELSE Insert(S[i - 1], results[i])
    IN S[Len(results)]

\* cluster_results.sort(key=lambda x: len(x.image_ids), reverse=True):
\* Python's sort is stable, also with reverse=True, so clusters of equal size
\* keep the order they had in the list.
SortBySize(results) ==
    LET Insert(sorted, x) ==
            LET k == Cardinality({j \in 1..Len(sorted) :
                        Len(sorted[j].image_ids) >= Len(x.image_ids)})
            IN SubSeq(sorted, 1, k) \o <<x>> \o SubSeq(sorted, k + 1, Len(sorted))
        S[i \in 0..Len(results)] ==
            IF i = 0 THEN <<>> ELSE Insert(S[i - 1], results[i])
    IN S[Len(results)]

\* The response built from the labels: one ClusterResult per dictionary entry,
\* sorted, the noise list, the count and params_used.
AssembleResult(req, labels, metric, umap_actually_used) ==
    LET cluster_results == SortBySize(ClustersDict(req.image_ids, labels))
    IN [clusters |-> cluster_results,
        noise_image_ids |-> NoiseIds(req.image_ids, labels),
        n_clusters |-> Len(cluster_results),
        params_used |-> ParamsUsed(req, metric, umap_actually_used)]

\* ------------------------------------------------------------------- state

VARIABLES
    todo,            \* the client calls not made yet: [entry, request, labels]
    served,          \* the calls made, by "sync", "stream" or the task id:
                     \* the request, the labels the clusterer has for it,
                     \* and how the reducer and the clusterer ended so far
    task_store,      \* routers/clustering.py task_store: task id -> record
    bg,              \* the background coroutine of each task: where it is
                     \* suspended, its arguments and its locals
    submitted,       \* the TaskSubmitResponse values returned by submit
    poll_resp,       \* what the last get_clustering_status call returned
    posts,           \* the callback POSTs attempted, in order
    callback_failed, \* the tasks for which some POST raised or timed out
    sync_resp,       \* what perform_clustering returned
    stream,          \* the ClusterStream generator: where it is suspended
    stream_out,      \* the ProgressUpdate messages yielded so far
    reducer_calls,   \* the UMAP reducers constructed: who, with what
    clusterer_calls  \* the HDBSCAN clusterers constructed: who, with what

vars == <<todo, served, task_store, bg, submitted, poll_resp, posts, callback_failed,
          sync_resp, stream, stream_out, reducer_calls, clusterer_calls>>

asyncVars == <<task_store, bg, submitted, poll_resp, posts, callback_failed>>
streamVars == <<stream, stream_out>>
libVars == <<reducer_calls, clusterer_calls>>

\* uuid4 values.
TaskIds == {"t1", "t2"}

Terminal == {"completed", "failed"}

\* ------------------------------------------------------ messages and errors

MsgSubmitted == <<"task submitted">>
MsgStart == <<"clustering started">>
MsgUmap == <<"UMAP reducing">>
MsgHdbscan == <<"HDBSCAN clustering">>
MsgAssemble == <<"assembling results">>
MsgCompleted == <<"clustering completed">>
MsgFailed(error) == <<"clustering failed", error>>

ErrLength == "embeddings and image_ids differ in length"
ErrTooFew == "at least 2 samples are needed"
ErrReducer == "umap raised"
ErrClusterer == "hdbscan raised"
ErrBuild == "building the response raised"

\* ---------------------------------------------------------------- async job

\* A plausible slip: the id is not fresh, and the record of a job that is
\* already in the table is replaced.
SubmitClusteringReusesId(c, task_id) ==
    /\ c \in todo
    /\ c.entry = "async"
    /\ task_id \in TaskIds
    /\ todo' = todo \ {c}
    /\ task_store' = (task_id :>
            [status |-> "pending", progress |-> 0, message |-> MsgSubmitted,
             go_task_id |-> c.request.go_task_id,
             callback_url |-> c.request.callback_url,
             result |-> None, error |-> None]) @@ task_store
    /\ bg' = (task_id :>
            [pc |-> "queued", request |-> c.request, labels |-> c.labels,
             umap_actually_used |-> FALSE, sending |-> None]) @@ bg
    /\ submitted' = submitted \cup {[task_id |-> task_id, status |-> "pending"]}
    /\ served' = (task_id :>
            [request |-> c.request, labels |-> c.labels,
             reducer |-> "none", clusterer |-> "none"]) @@ served
    /\ UNCHANGED <<poll_resp, posts, callback_failed, sync_resp, streamVars, libVars>>

\* submit_clustering: a fresh uuid4, the pending record, the background task
\* queued, and the response.
SubmitClustering(c, task_id) ==
    /\ c \in todo
    /\ c.entry = "async"
    /\ task_id \in TaskIds \ DOMAIN task_store
    /\ todo' = todo \ {c}
    /\ task_store' = task_store @@ (task_id :>
            [status |-> "pending", progress |-> 0, message |-> MsgSubmitted,
             go_task_id |-> c.request.go_task_id,
             callback_url |-> c.request.callback_url,
             result |-> None, error |-> None])
    /\ bg' = bg @@ (task_id :>
            [pc |-> "queued", request |-> c.request, labels |-> c.labels,
             umap_actually_used |-> FALSE, sending |-> None])
    /\ submitted' = submitted \cup {[task_id |-> task_id, status |-> "pending"]}
    /\ served' = served @@ (task_id :>
            [request |-> c.request, labels |-> c.labels,
             reducer |-> "none", clusterer |-> "none"])
    /\ UNCHANGED <<poll_resp, posts, callback_failed, sync_resp, streamVars, libVars>>

\* get_clustering_status: 404 for an unknown id, else the record's fields.
StatusResponse(task_id) ==
    IF task_id \notin DOMAIN task_store
    THEN [code |-> 404, task_id |-> task_id]
    ELSE [code |-> 200, task_id |-> task_id,
          status |-> task_store[task_id].status,
          progress |-> task_store[task_id].progress,
          message |-> task_store[task_id].message,
          result |-> task_store[task_id].result,
          error |-> task_store[task_id].error]

\* A plausible slip: a lookup that inserts a record for an id it does not
\* know.
GetClusteringStatusCreates(task_id) ==
    /\ poll_resp' = Some(StatusResponse(task_id))
    /\ task_store' =
            IF task_id \in DOMAIN task_store THEN task_store
            ELSE task_store @@ (task_id :>
                    [status |-> "pending", progress |-> 0, message |-> MsgSubmitted,
                     go_task_id |-> 0, callback_url |-> "",
                     result |-> None, error |-> None])
    /\ UNCHANGED <<todo, served, bg, submitted, posts, callback_failed,
                   sync_resp, streamVars, libVars>>

GetClusteringStatus(task_id) ==
    /\ poll_resp' = Some(StatusResponse(task_id))
    /\ UNCHANGED <<todo, served, task_store, bg, submitted, posts, callback_failed,
                   sync_resp, streamVars, libVars>>

\* A plausible slip: the progress is written to every record of the table.
ProgressWrittenToAll(store, task_id, status, progress, message) ==
    IF task_id \notin DOMAIN store THEN store
    ELSE [u \in DOMAIN store |->
            [store[u] EXCEPT !.status = status, !.progress = progress,
                             !.message = message]]

\* report_progress up to its POST: the three fields written, and the JSON body.
ProgressWritten(store, task_id, status, progress, message) ==
    IF task_id \notin DOMAIN store THEN store
    ELSE [store EXCEPT ![task_id].status = status,
                       ![task_id].progress = progress,
                       ![task_id].message = message]

\* A plausible slip: go_task_id is read from whichever record comes first.
ProgressBodyOfFirstRecord(store, task_id, status, progress, message) ==
    IF task_id \notin DOMAIN store THEN None
    ELSE Some([python_task_id |-> task_id,
               go_task_id |-> store[CHOOSE u \in DOMAIN store :
                                        \A v \in DOMAIN store :
                                            store[u].go_task_id <= store[v].go_task_id].go_task_id,
               status |-> status, progress |-> progress, message |-> message,
               result |-> None, error |-> None])

ProgressBody(store, task_id, status, progress, message) ==
    IF task_id \notin DOMAIN store THEN None
    ELSE Some([python_task_id |-> task_id,
               go_task_id |-> store[task_id].go_task_id,
               status |-> status, progress |-> progress, message |-> message,
               result |-> None, error |-> None])

\* A plausible slip: the status is set and the result is stored later.
CompletionWrittenStatusOnly(store, task_id, result) ==
    IF task_id \notin DOMAIN store THEN store
    ELSE [store EXCEPT ![task_id].status = "completed",
                       ![task_id].progress = 100,
                       ![task_id].message = MsgCompleted]

\* report_completion up to its POST.
CompletionWritten(store, task_id, result) ==
    IF task_id \notin DOMAIN store THEN store
    ELSE [store EXCEPT ![task_id].status = "completed",
                       ![task_id].progress = 100,
                       ![task_id].message = MsgCompleted,
                       ![task_id].result = Some(result)]

\* A plausible slip: the body is built from the record as it was before the
\* completion was written.
CompletionBodyStale(store, task_id, result) ==
    IF task_id \notin DOMAIN store THEN None
    ELSE Some([python_task_id |-> task_id,
               go_task_id |-> store[task_id].go_task_id,
               status |-> store[task_id].status,
               progress |-> store[task_id].progress,
               message |-> store[task_id].message,
               result |-> Some(result), error |-> None])

CompletionBody(store, task_id, result) ==
    IF task_id \notin DOMAIN store THEN None
    ELSE Some([python_task_id |-> task_id,
               go_task_id |-> store[task_id].go_task_id,
               status |-> "completed", progress |-> 100,
               message |-> MsgCompleted,
               result |-> Some(result), error |-> None])

\* report_failure up to its POST: progress is not written, the body says 0.
FailureWritten(store, task_id, error) ==
    IF task_id \notin DOMAIN store THEN store
    ELSE [store EXCEPT ![task_id].status = "failed",
                       ![task_id].error = Some(error),
                       ![task_id].message = MsgFailed(error)]

FailureBody(store, task_id, error) ==
    IF task_id \notin DOMAIN store THEN None
    ELSE Some([python_task_id |-> task_id,
               go_task_id |-> store[task_id].go_task_id,
               status |-> "failed", progress |-> 0,
               message |-> FailureWritten(store, task_id, error)[task_id].message,
               result |-> None, error |-> Some(error)])

\* A plausible slip: the except clause around the POST is missing.
CallbackErrorEscapes(outcome) == outcome # "ok"

\* Whether an exception of the POST leaves report_*: "except Exception" around
\* the client block catches it and prints, so it never does.
CallbackErrorPropagates(outcome) == FALSE

PostOutcomes == {"ok", "raised", "timeout"}

\* A plausible slip: a POST that raised or timed out is attempted once more.
PostedWithRetry(task_id, outcome) ==
    /\ posts' = IF bg[task_id].sending = None THEN posts
                ELSE IF outcome = "ok" THEN Append(posts, bg[task_id].sending[1])
                ELSE posts \o <<bg[task_id].sending[1], bg[task_id].sending[1]>>
    /\ callback_failed' = IF outcome = "ok" THEN callback_failed
                          ELSE callback_failed \cup {task_id}

\* The POST of the pending report_* call is attempted and returns or raises.
Posted(task_id, outcome) ==
    /\ posts' = IF bg[task_id].sending = None THEN posts
                ELSE Append(posts, bg[task_id].sending[1])
    /\ callback_failed' = IF outcome = "ok" THEN callback_failed
                          ELSE callback_failed \cup {task_id}

\* A plausible slip: the POST is made first and the record is not written
\* before it.
ReportPostsFirst(task_id, status, progress, message, pc) ==
    /\ task_store' = task_store
    /\ bg' = [bg EXCEPT ![task_id].pc = pc,
                        ![task_id].sending =
                            ProgressBody(task_store, task_id, status, progress, message)]

\* await report_progress(...), up to the POST.
Report(task_id, status, progress, message, pc) ==
    /\ task_store' = ProgressWritten(task_store, task_id, status, progress, message)
    /\ bg' = [bg EXCEPT ![task_id].pc = pc,
                        ![task_id].sending =
                            ProgressBody(task_store, task_id, status, progress, message)]

\* A plausible slip: the failure is stored and nobody is told.
FailWithoutNotice(task_id, error) ==
    /\ task_store' = FailureWritten(task_store, task_id, error)
    /\ bg' = [bg EXCEPT ![task_id].pc = "post_failed", ![task_id].sending = None]

\* except Exception as e: await report_failure(task_id, str(e)), up to the POST.
Fail(task_id, error) ==
    /\ task_store' = FailureWritten(task_store, task_id, error)
    /\ bg' = [bg EXCEPT ![task_id].pc = "post_failed",
                        ![task_id].sending = FailureBody(task_store, task_id, error)]

\* A plausible slip: the input checks run before the first report, so a bad
\* request goes from pending straight to failed.
RunClusteringAsyncChecksFirst(task_id) ==
    /\ task_id \in DOMAIN bg
    /\ bg[task_id].pc = "queued"
    /\ LET req == bg[task_id].request IN
       IF req.n # Len(req.image_ids) THEN Fail(task_id, ErrLength)
       ELSE IF req.n < 2 THEN Fail(task_id, ErrTooFew)
       ELSE Report(task_id, "clustering", 10, MsgStart, "post_start")
    /\ UNCHANGED <<todo, served, submitted, poll_resp, posts, callback_failed,
                   sync_resp, streamVars, libVars>>

\* run_clustering_async starts: report_progress(10), up to its POST.
RunClusteringAsync(task_id) ==
    /\ task_id \in DOMAIN bg
    /\ bg[task_id].pc = "queued"
    /\ Report(task_id, "clustering", 10, MsgStart, "post_start")
    /\ UNCHANGED <<todo, served, submitted, poll_resp, posts, callback_failed,
                   sync_resp, streamVars, libVars>>

\* A plausible slip: 30 is reported whether or not the reduction is selected.
AfterStartPostAlwaysReports30(task_id, outcome) ==
    /\ task_id \in DOMAIN bg
    /\ bg[task_id].pc = "post_start"
    /\ Posted(task_id, outcome)
    /\ LET req == bg[task_id].request IN
       IF req.n # Len(req.image_ids) THEN Fail(task_id, ErrLength)
       ELSE IF req.n < 2 THEN Fail(task_id, ErrTooFew)
       ELSE Report(task_id, "clustering", 30, MsgUmap, "post_umap")
    /\ UNCHANGED <<todo, served, submitted, poll_resp, sync_resp, streamVars, libVars>>

\* The POST of 10 is over: the two input checks, then 30 if the reduction is
\* selected, else 60.
AfterStartPost(task_id, outcome) ==
    /\ task_id \in DOMAIN bg
    /\ bg[task_id].pc = "post_start"
    /\ Posted(task_id, outcome)
    /\ LET req == bg[task_id].request IN
       IF CallbackErrorPropagates(outcome) THEN Fail(task_id, outcome)
       ELSE IF req.n # Len(req.image_ids) THEN Fail(task_id, ErrLength)
       ELSE IF req.n < 2 THEN Fail(task_id, ErrTooFew)
       ELSE IF UmapSelected(req)
            THEN Report(task_id, "clustering", 30, MsgUmap, "post_umap")
            ELSE Report(task_id, "clustering", 60, MsgHdbscan, "post_hdbscan")
    /\ UNCHANGED <<todo, served, submitted, poll_resp, sync_resp, streamVars, libVars>>

\* The POST of 30 is over: import umap raises ImportError (caught: go on to
\* 60 with the original vectors), or the reducer is built and fit_transform
\* is handed to the executor.
AfterUmapPost(task_id, outcome, lib) ==
    /\ task_id \in DOMAIN bg
    /\ bg[task_id].pc = "post_umap"
    /\ Posted(task_id, outcome)
    /\ IF CallbackErrorPropagates(outcome)
       THEN Fail(task_id, outcome) /\ UNCHANGED <<served, reducer_calls>>
       ELSE IF lib = "import_error"
       THEN /\ Report(task_id, "clustering", 60, MsgHdbscan, "post_hdbscan")
            /\ served' = [served EXCEPT ![task_id].reducer = "import_error"]
            /\ UNCHANGED reducer_calls
       ELSE /\ bg' = [bg EXCEPT ![task_id].pc = "reducing",
                                ![task_id].sending = None]
            /\ reducer_calls' = Append(reducer_calls,
                    [by |-> task_id, args |-> ReducerArgs(bg[task_id].request)])
            /\ UNCHANGED <<served, task_store>>
    /\ UNCHANGED <<todo, submitted, poll_resp, sync_resp, streamVars, clusterer_calls>>

\* A plausible slip: an exception of the reducer ends the coroutine without
\* anything being reported.
ReducerReturnsDropsJob(task_id, r) ==
    /\ task_id \in DOMAIN bg
    /\ bg[task_id].pc = "reducing"
    /\ IF r = "ok"
       THEN /\ task_store' = ProgressWritten(task_store, task_id, "clustering", 60, MsgHdbscan)
            /\ bg' = [bg EXCEPT ![task_id].pc = "post_hdbscan",
                                ![task_id].umap_actually_used = TRUE,
                                ![task_id].sending =
                                    ProgressBody(task_store, task_id, "clustering", 60, MsgHdbscan)]
       ELSE IF r = "import_error"
       THEN Report(task_id, "clustering", 60, MsgHdbscan, "post_hdbscan")
       ELSE /\ bg' = [bg EXCEPT ![task_id].pc = "done"]
            /\ UNCHANGED task_store
    /\ served' = [served EXCEPT ![task_id].reducer = r]
    /\ UNCHANGED <<todo, submitted, poll_resp, posts, callback_failed,
                   sync_resp, streamVars, libVars>>

\* fit_transform returns (umap_actually_used = True, then 60) or raises.
ReducerReturns(task_id, r) ==
    /\ task_id \in DOMAIN bg
    /\ bg[task_id].pc = "reducing"
    /\ IF r = "ok"
       THEN /\ task_store' = ProgressWritten(task_store, task_id, "clustering", 60, MsgHdbscan)
            /\ bg' = [bg EXCEPT ![task_id].pc = "post_hdbscan",
                                ![task_id].umap_actually_used = TRUE,
                                ![task_id].sending =
                                    ProgressBody(task_store, task_id, "clustering", 60, MsgHdbscan)]
       ELSE IF r = "import_error"
       THEN Report(task_id, "clustering", 60, MsgHdbscan, "post_hdbscan")
       ELSE Fail(task_id, ErrReducer)
    /\ served' = [served EXCEPT ![task_id].reducer = r]
    /\ UNCHANGED <<todo, submitted, poll_resp, posts, callback_failed,
                   sync_resp, streamVars, libVars>>

\* A plausible slip: a progress POST that raised or timed out ends the job.
AfterHdbscanPostStopsOnFailure(task_id, outcome) ==
    /\ task_id \in DOMAIN bg
    /\ bg[task_id].pc = "post_hdbscan"
    /\ Posted(task_id, outcome)
    /\ IF outcome # "ok"
       THEN Fail(task_id, outcome) /\ UNCHANGED clusterer_calls
       ELSE /\ bg' = [bg EXCEPT ![task_id].pc = "clustering",
                                ![task_id].sending = None]
            /\ clusterer_calls' = Append(clusterer_calls,
                    [by |-> task_id,
                     args |-> ClustererArgs(bg[task_id].request,
                                RouterMetric(bg[task_id].umap_actually_used,
                                             bg[task_id].request))])
            /\ UNCHANGED task_store
    /\ UNCHANGED <<todo, served, submitted, poll_resp, sync_resp, streamVars, reducer_calls>>

\* The POST of 60 is over: the effective parameters, the clusterer built,
\* fit_predict handed to the executor.
AfterHdbscanPost(task_id, outcome) ==
    /\ task_id \in DOMAIN bg
    /\ bg[task_id].pc = "post_hdbscan"
    /\ Posted(task_id, outcome)
    /\ IF CallbackErrorPropagates(outcome)
       THEN Fail(task_id, outcome) /\ UNCHANGED clusterer_calls
       ELSE /\ bg' = [bg EXCEPT ![task_id].pc = "clustering",
                                ![task_id].sending = None]
            /\ clusterer_calls' = Append(clusterer_calls,
                    [by |-> task_id,
                     args |-> ClustererArgs(bg[task_id].request,
                                RouterMetric(bg[task_id].umap_actually_used,
                                             bg[task_id].request))])
            /\ UNCHANGED task_store
    /\ UNCHANGED <<todo, served, submitted, poll_resp, sync_resp, streamVars, reducer_calls>>

\* fit_predict returns the labels (then 90) or raises.
ClustererReturns(task_id, r) ==
    /\ task_id \in DOMAIN bg
    /\ bg[task_id].pc = "clustering"
    /\ IF r = "ok"
       THEN Report(task_id, "clustering", 90, MsgAssemble, "post_assemble")
       ELSE Fail(task_id, ErrClusterer)
    /\ served' = [served EXCEPT ![task_id].clusterer = r]
    /\ UNCHANGED <<todo, submitted, poll_resp, posts, callback_failed,
                   sync_resp, streamVars, libVars>>

\* The POST of 90 is over: the result is assembled and report_completion
\* runs up to its POST.
AfterAssemblePost(task_id, outcome) ==
    /\ task_id \in DOMAIN bg
    /\ bg[task_id].pc = "post_assemble"
    /\ Posted(task_id, outcome)
    /\ IF CallbackErrorPropagates(outcome) THEN Fail(task_id, outcome)
       ELSE LET req == bg[task_id].request
                used == bg[task_id].umap_actually_used
                result == AssembleResult(req, bg[task_id].labels,
                                         RouterMetric(used, req), used)
            IN /\ task_store' = CompletionWritten(task_store, task_id, result)
               /\ bg' = [bg EXCEPT ![task_id].pc = "post_completed",
                                   ![task_id].sending =
                                       CompletionBody(task_store, task_id, result)]
    /\ UNCHANGED <<todo, served, submitted, poll_resp, sync_resp, streamVars, libVars>>

\* A plausible slip: a completed notification that could not be delivered
\* marks the job failed.
AfterCompletedPostMarksFailure(task_id, outcome) ==
    /\ task_id \in DOMAIN bg
    /\ bg[task_id].pc = "post_completed"
    /\ Posted(task_id, outcome)
    /\ bg' = [bg EXCEPT ![task_id].pc = "done", ![task_id].sending = None]
    /\ task_store' = IF outcome = "ok" THEN task_store
                     ELSE FailureWritten(task_store, task_id, outcome)
    /\ UNCHANGED <<todo, served, submitted, poll_resp, sync_resp, streamVars, libVars>>

\* The POST of the completed event is over: report_completion returns and the
\* coroutine ends.
AfterCompletedPost(task_id, outcome) ==
    /\ task_id \in DOMAIN bg
    /\ bg[task_id].pc = "post_completed"
    /\ Posted(task_id, outcome)
    /\ IF CallbackErrorPropagates(outcome) THEN Fail(task_id, outcome)
       ELSE /\ bg' = [bg EXCEPT ![task_id].pc = "done", ![task_id].sending = None]
            /\ UNCHANGED task_store
    /\ UNCHANGED <<todo, served, submitted, poll_resp, sync_resp, streamVars, libVars>>

\* The POST of the failed event is over: report_failure returns (or its
\* exception leaves the coroutine) and the coroutine ends.
AfterFailedPost(task_id, outcome) ==
    /\ task_id \in DOMAIN bg
    /\ bg[task_id].pc = "post_failed"
    /\ Posted(task_id, outcome)
    /\ bg' = [bg EXCEPT ![task_id].pc = "done", ![task_id].sending = None]
    /\ UNCHANGED <<todo, served, task_store, submitted, poll_resp, sync_resp, streamVars, libVars>>

LibOutcomes == {"available", "import_error"}
ReducerOutcomes == {"ok", "import_error", "error"}
ClustererOutcomes == {"ok", "error"}

\* ------------------------------------------------------ synchronous request

\* perform_clustering from its first line to its return or its exception:
\* the HTTP answer, and the library calls made on the way.
PerformClusteringRun(req, labels, lib, r, cl) ==
    LET selected == UmapSelected(req)
        built == selected /\ lib = "available"
        umap_actually_used == built /\ r = "ok"
        metric == RouterMetric(umap_actually_used, req)
        rcalls == IF built THEN <<ReducerArgs(req)>> ELSE <<>>
        rout == IF ~selected THEN "none"
                ELSE IF lib = "import_error" THEN "import_error" ELSE r
    IN IF Len(req.image_ids) # req.n
       THEN [code |-> 400, detail |-> Some(ErrLength), body |-> None,
             reducer |-> <<>>, clusterer |-> <<>>,
             reducer_outcome |-> "none", clusterer_outcome |-> "none"]
       ELSE IF req.n < 2
       THEN [code |-> 400, detail |-> Some(ErrTooFew), body |-> None,
             reducer |-> <<>>, clusterer |-> <<>>,
             reducer_outcome |-> "none", clusterer_outcome |-> "none"]
       ELSE IF built /\ r = "error"
       THEN [code |-> 500, detail |-> Some(ErrReducer), body |-> None,
             reducer |-> rcalls, clusterer |-> <<>>,
             reducer_outcome |-> rout, clusterer_outcome |-> "none"]
       ELSE IF cl = "error"
       THEN [code |-> 500, detail |-> Some(ErrClusterer), body |-> None,
             reducer |-> rcalls, clusterer |-> <<ClustererArgs(req, metric)>>,
             reducer_outcome |-> rout, clusterer_outcome |-> cl]
       ELSE [code |-> 200, detail |-> None,
             body |-> Some(AssembleResult(req, labels, metric, umap_actually_used)),
             reducer |-> rcalls, clusterer |-> <<ClustererArgs(req, metric)>>,
             reducer_outcome |-> rout, clusterer_outcome |-> cl]

Calls(by, argss) == [i \in 1..Len(argss) |-> [by |-> by, args |-> argss[i]]]

PerformClustering(c, lib, r, cl) ==
    /\ c \in todo
    /\ c.entry = "sync"
    /\ todo' = todo \ {c}
    /\ LET run == PerformClusteringRun(c.request, c.labels, lib, r, cl) IN
       /\ sync_resp' = Some([code |-> run.code, detail |-> run.detail, body |-> run.body])
       /\ reducer_calls' = reducer_calls \o Calls("sync", run.reducer)
       /\ clusterer_calls' = clusterer_calls \o Calls("sync", run.clusterer)
       /\ served' = served @@ ("sync" :>
                [request |-> c.request, labels |-> c.labels,
                 reducer |-> run.reducer_outcome,
                 clusterer |-> run.clusterer_outcome])
    /\ UNCHANGED <<asyncVars, streamVars>>

\* ------------------------------------------------------------ streaming call

ProgressInfo(status, progress, message) ==
    [status |-> status, progress |-> progress, message |-> message]

\* ClusteringService.cluster from its first line to its return or its
\* exception: what progress_callback was called with, the result or the
\* error, and the library calls made on the way.  umap is imported at module
\* level and nothing catches around the reducer: whatever it raises leaves
\* cluster().
ServiceClusterRun(req, labels, r, cl) ==
    LET selected == UmapSelected(req)
        umap_actually_used == selected /\ r = "ok"
        metric == ServiceMetric(umap_actually_used, req)
        e10 == ProgressInfo("clustering", 10, MsgStart)
        e30 == ProgressInfo("clustering", 30, MsgUmap)
        e60 == ProgressInfo("clustering", 60, MsgHdbscan)
        e90 == ProgressInfo("clustering", 90, MsgAssemble)
        upto30 == IF selected THEN <<e10, e30>> ELSE <<e10>>
        rcalls == IF selected THEN <<ReducerArgs(req)>> ELSE <<>>
        rout == IF selected THEN r ELSE "none"
    IN IF Len(req.image_ids) # req.n
       THEN [raised |-> TRUE, error |-> ErrLength, result |-> None,
             progress_list |-> <<e10>>, reducer |-> <<>>, clusterer |-> <<>>,
             reducer_outcome |-> "none", clusterer_outcome |-> "none"]
       ELSE IF req.n < 2
       THEN [raised |-> TRUE, error |-> ErrTooFew, result |-> None,
             progress_list |-> <<e10>>, reducer |-> <<>>, clusterer |-> <<>>,
             reducer_outcome |-> "none", clusterer_outcome |-> "none"]
       ELSE IF selected /\ r # "ok"
       THEN [raised |-> TRUE, error |-> ErrReducer, result |-> None,
             progress_list |-> upto30, reducer |-> rcalls, clusterer |-> <<>>,
             reducer_outcome |-> rout, clusterer_outcome |-> "none"]
       ELSE IF cl = "error"
       THEN [raised |-> TRUE, error |-> ErrClusterer, result |-> None,
             progress_list |-> Append(upto30, e60), reducer |-> rcalls,
             clusterer |-> <<ClustererArgs(req, metric)>>,
             reducer_outcome |-> rout, clusterer_outcome |-> cl]
       ELSE [raised |-> FALSE, error |-> "",
             result |-> Some(AssembleResult(req, labels, metric, umap_actually_used)),
             progress_list |-> upto30 \o <<e60, e90>>, reducer |-> rcalls,
             clusterer |-> <<ClustererArgs(req, metric)>>,
             reducer_outcome |-> rout, clusterer_outcome |-> cl]

\* ClusterStream's conversion of the request: an unset (zero) field takes the
\* default; the service has no metric parameter.
StreamParams(req) ==
    [req EXCEPT
        !.hdbscan_params.min_cluster_size = IF @ = 0 THEN 5 ELSE @,
        !.umap_params.n_components = IF @ = 0 THEN 50 ELSE @,
        !.umap_params.n_neighbors = IF @ = 0 THEN 15 ELSE @]

\* json.dumps of one params_used group.
JsonDumps(v) == <<"json", v>>

\* The ai_pb2.ClusteringResponse built from the result: params_used keeps the
\* groups that are not None, each as a JSON string.
StreamResponse(result) ==
    [clusters |-> result.clusters,
     noise_image_ids |-> result.noise_image_ids,
     n_clusters |-> result.n_clusters,
     params_used |->
        [k \in {g \in {"hdbscan", "umap"} : result.params_used[g] # None} |->
            JsonDumps(result.params_used[k])]]

ProgressUpdate(task_id, info) ==
    [task_id |-> task_id, status |-> info.status, progress |-> info.progress,
     message |-> info.message, result |-> None, error |-> None]

CompletedUpdate(task_id, result) ==
    [task_id |-> task_id, status |-> "completed", progress |-> 100,
     message |-> MsgCompleted, result |-> Some(StreamResponse(result)),
     error |-> None]

FailedUpdate(task_id, error) ==
    [task_id |-> task_id, status |-> "failed", progress |-> 0,
     message |-> MsgFailed(error), result |-> None, error |-> Some(error)]

\* The first next() on the generator: cluster() runs to its end, then the
\* first collected progress is yielded, from the try block or, when cluster()
\* raised, from the except block.
ClusterStreamCall(c, r, cl) ==
    /\ c \in todo
    /\ c.entry = "stream"
    /\ stream.pc = "idle"
    /\ todo' = todo \ {c}
    /\ LET run == ServiceClusterRun(StreamParams(c.request), c.labels, r, cl) IN
       /\ stream' = [pc |-> IF run.raised THEN "except_loop" ELSE "try_loop",
                     idx |-> 1, task_id |-> c.request.task_id,
                     progress_list |-> run.progress_list,
                     result |-> run.result, error |-> run.error]
       /\ stream_out' = <<ProgressUpdate(c.request.task_id, run.progress_list[1])>>
       /\ reducer_calls' = reducer_calls \o Calls("stream", run.reducer)
       /\ clusterer_calls' = clusterer_calls \o Calls("stream", run.clusterer)
       /\ served' = served @@ ("stream" :>
                [request |-> c.request, labels |-> c.labels,
                 reducer |-> run.reducer_outcome,
                 clusterer |-> run.clusterer_outcome])
    /\ UNCHANGED <<asyncVars, sync_resp>>

BuildOutcomes == {"ok", "error"}

\* A later next(): the generator goes on to its next yield or to its end.
ClusterStreamResume(build) ==
    /\ stream.pc \in {"try_loop", "except_loop", "completed", "failed"}
    /\ IF stream.pc \in {"completed", "failed"}
       THEN /\ stream' = [stream EXCEPT !.pc = "done"]
            /\ UNCHANGED stream_out
       ELSE IF stream.idx < Len(stream.progress_list)
       THEN /\ stream' = [stream EXCEPT !.idx = @ + 1]
            /\ stream_out' = Append(stream_out,
                    ProgressUpdate(stream.task_id, stream.progress_list[stream.idx + 1]))
       ELSE IF stream.pc = "except_loop"
       THEN /\ stream' = [stream EXCEPT !.pc = "failed"]
            /\ stream_out' = Append(stream_out, FailedUpdate(stream.task_id, stream.error))
       ELSE IF build = "ok"
       THEN /\ stream' = [stream EXCEPT !.pc = "completed"]
            /\ stream_out' = Append(stream_out,
                    CompletedUpdate(stream.task_id, stream.result[1]))
       ELSE /\ stream' = [stream EXCEPT !.pc = "except_loop", !.idx = 1,
                                        !.error = ErrBuild]
            /\ stream_out' = Append(stream_out,
                    ProgressUpdate(stream.task_id, stream.progress_list[1]))
    /\ UNCHANGED <<todo, served, asyncVars, sync_resp, libVars>>

\* ------------------------------------------------------------ specification

Entries == {"sync", "stream", "async"}

DefaultUmap == [enabled |-> FALSE, n_components |-> 2, n_neighbors |-> 2]
DefaultHdbscan == [min_cluster_size |-> 2, min_samples |-> None, metric |-> "cosine"]

\* The label vector a request with n points is answered with when the labels
\* are not what varies: the first half in cluster 0, the rest noise.
SomeLabels(n) == [i \in 1..n |-> IF 2 * i <= n + 1 THEN 0 ELSE NOISE]

\* Well-formed requests over every parameter combination.
ParamCalls ==
    { [entry |-> e, request |-> q, labels |-> SomeLabels(q.n)] :
        e \in Entries,
        q \in UNION { RequestsOf({n}, {n}, UMAPParamsSet, HDBSCANParamsSet) :
                        n \in 2..MaxN } }

\* Well-formed requests answered with every label vector.
LabelCalls ==
    UNION { { [entry |-> e, request |-> q, labels |-> l] :
                e \in Entries,
                q \in RequestsOf({n}, {n}, {DefaultUmap}, {DefaultHdbscan}),
                l \in LabelVectors(n) } : n \in 2..MaxLabelledN }

\* Requests with fewer than 2 points or with ids that do not match.
BadCalls ==
    { [entry |-> e, request |-> q, labels |-> SomeLabels(q.n)] :
        e \in Entries,
        q \in UNION { RequestsOf({n}, {m \in {n - 1, n, n + 1} : m >= 0 /\ (n < 2 \/ m # n)},
                                 {DefaultUmap, [DefaultUmap EXCEPT !.enabled = TRUE]},
                                 {DefaultHdbscan}) : n \in 0..MaxN } }

ClientCalls == ParamCalls \cup LabelCalls \cup BadCalls

Init ==
    /\ \E c \in ClientCalls : todo = {c}
    /\ served = <<>>
    /\ task_store = <<>>
    /\ bg = <<>>
    /\ submitted = {}
    /\ poll_resp = None
    /\ posts = <<>>
    /\ callback_failed = {}
    /\ sync_resp = None
    /\ stream = [pc |-> "idle"]
    /\ stream_out = <<>>
    /\ reducer_calls = <<>>
    /\ clusterer_calls = <<>>

Next ==
    \/ \E c \in todo, task_id \in TaskIds : SubmitClustering(c, task_id)
    \/ \E task_id \in TaskIds : GetClusteringStatus(task_id)
    \/ \E task_id \in TaskIds : RunClusteringAsync(task_id)
    \/ \E task_id \in TaskIds, outcome \in PostOutcomes : AfterStartPost(task_id, outcome)
    \/ \E task_id \in TaskIds, outcome \in PostOutcomes, lib \in LibOutcomes :
            AfterUmapPost(task_id, outcome, lib)
    \/ \E task_id \in TaskIds, r \in ReducerOutcomes : ReducerReturns(task_id, r)
    \/ \E task_id \in TaskIds, outcome \in PostOutcomes : AfterHdbscanPost(task_id, outcome)
    \/ \E task_id \in TaskIds, r \in ClustererOutcomes : ClustererReturns(task_id, r)
    \/ \E task_id \in TaskIds, outcome \in PostOutcomes : AfterAssemblePost(task_id, outcome)
    \/ \E task_id \in TaskIds, outcome \in PostOutcomes : AfterCompletedPost(task_id, outcome)
    \/ \E task_id \in TaskIds, outcome \in PostOutcomes : AfterFailedPost(task_id, outcome)
    \/ \E c \in todo, lib \in LibOutcomes, r \in ReducerOutcomes, cl \in ClustererOutcomes :
            PerformClustering(c, lib, r, cl)
    \/ \E c \in todo, r \in ReducerOutcomes, cl \in ClustererOutcomes :
            ClusterStreamCall(c, r, cl)
    \/ \E build \in BuildOutcomes : ClusterStreamResume(build)

Spec == Init /\ [][Next]_vars

\* ------------------------------------------------------------------ helpers

\* The callback bodies attempted for one task, in order.
EventsOf(task_id) == SelectSeq(posts, LAMBDA b : b.python_task_id = task_id)

NonDecreasing(events) ==
    \A i, j \in 1..Len(events) : i < j => events[i].progress <= events[j].progress

\* Every result computed so far, with who computed it: the synchronous
\* response, the result of the stream's cluster() call, the stored results.
Results ==
    {[by |-> "sync", result |-> sync_resp[1].body[1]] :
        x \in {y \in {1} : sync_resp # None /\ sync_resp[1].body # None}}
    \cup {[by |-> "stream", result |-> stream.result[1]] :
        x \in {y \in {1} : stream.pc # "idle" /\ stream.result # None}}
    \cup {[by |-> t, result |-> task_store[t].result[1]] :
        t \in {u \in DOMAIN task_store : task_store[u].result # None}}

\* ------------------------------------------------------------------- claims

\* C1: the stored status of an async job only ever changes pending ->
\* clustering, clustering -> completed or clustering -> failed, and a new
\* record starts pending, whatever the callback POSTs do.
C1_StatusTransitions ==
    [][\A t \in TaskIds :
        /\ (t \in DOMAIN task_store => t \in DOMAIN task_store')
        /\ (t \notin DOMAIN task_store /\ t \in DOMAIN task_store'
                => task_store'[t].status = "pending")
        /\ (t \in DOMAIN task_store /\ task_store'[t].status # task_store[t].status
                => <<task_store[t].status, task_store'[t].status>> \in
                      {<<"pending", "clustering">>, <<"clustering", "completed">>,
                       <<"clustering", "failed">>})]_vars

\* A job that completed although one of its POSTs raised or timed out.
C1_Witness ==
    \E t \in DOMAIN task_store :
        /\ task_store[t].status = "completed"
        /\ t \in callback_failed
        /\ bg[t].pc = "done"

\* C2: once the status is completed or failed the record never changes
\* again (so there is one terminal transition), and a get_status answer that
\* shows a terminal status is repeated by every later get_status of that task.
C2_TerminalImmutable ==
    [][/\ \A t \in DOMAIN task_store :
            task_store[t].status \in Terminal
                => t \in DOMAIN task_store' /\ task_store'[t] = task_store[t]
       /\ (/\ poll_resp # None /\ poll_resp[1].code = 200
           /\ poll_resp[1].status \in Terminal
           /\ poll_resp' # None /\ poll_resp'[1].task_id = poll_resp[1].task_id)
                => poll_resp' = poll_resp]_vars

\* A failed job polled after its coroutine ended: the answer shows the error.
C2_Witness ==
    \E t \in DOMAIN task_store :
        /\ bg[t].pc = "done"
        /\ task_store[t].status = "failed"
        /\ poll_resp = Some(StatusResponse(t))

IsLastTerminal(events) ==
    /\ Len(events) >= 1
    /\ events[Len(events)].status \in Terminal
    /\ \A i \in 1..Len(events) - 1 : events[i].status \notin Terminal

\* C3 (as claimed): for every job and every streaming request, failing ones
\* included, the progress values of the events sent to the callback or
\* yielded on the stream never decrease, and once the job or the stream has
\* ended there is exactly one terminal event, the last one.
C3_ProgressNonDecreasing ==
    /\ \A t \in DOMAIN task_store :
        /\ NonDecreasing(EventsOf(t))
        /\ bg[t].pc = "done" => IsLastTerminal(EventsOf(t))
    /\ NonDecreasing(stream_out)
    /\ stream.pc = "done" => IsLastTerminal(stream_out)

EndsCompleted(events) ==
    /\ NonDecreasing(events)
    /\ Len(events) >= 1
    /\ events[Len(events)].status = "completed"
    /\ events[Len(events)].progress = 100
    /\ \A i \in 1..Len(events) - 1 :
            events[i].status # "completed" /\ events[i].progress # 100

\* C4: when a job has ended completed, or a stream has ended after yielding
\* a completed update, its events never decrease in progress and end with the
\* only event that has status completed or progress 100, which has both.
C4_CompletedSequence ==
    /\ \A t \in DOMAIN task_store :
        (task_store[t].status = "completed" /\ bg[t].pc = "done")
            => EndsCompleted(EventsOf(t))
    /\ (stream.pc = "done" /\ \E i \in 1..Len(stream_out) : stream_out[i].status = "completed")
            => EndsCompleted(stream_out)

\* A completed job that went through the reduction: 10, 30, 60, 90, 100.
C4_Witness ==
    \E t \in DOMAIN task_store :
        /\ task_store[t].status = "completed"
        /\ bg[t].pc = "done"
        /\ Len(EventsOf(t)) = 5

\* C5: on the callback and on the stream nothing is sent after a terminal
\* event: an event with status completed or failed is the last one of its
\* job or stream.
C5_TerminalIsLast ==
    /\ \A t \in DOMAIN task_store :
        \A i \in 1..Len(EventsOf(t)) - 1 : EventsOf(t)[i].status \notin Terminal
    /\ \A i \in 1..Len(stream_out) - 1 : stream_out[i].status \notin Terminal

\* A stream that yielded progress, then its failed update, and ended.
C5_Witness ==
    /\ stream.pc = "done"
    /\ Len(stream_out) >= 3
    /\ stream_out[Len(stream_out)].status = "failed"

ResultOf(by) == (CHOOSE x \in Results : x.by = by).result
HasResult(by) == \E x \in Results : x.by = by

Occurrences(result, img) ==
    Cardinality({<<k, p>> \in (1..Len(result.clusters)) \X (1..MaxN) :
                    /\ p <= Len(result.clusters[k].image_ids)
                    /\ result.clusters[k].image_ids[p] = img})
    + Cardinality({p \in 1..Len(result.noise_image_ids) :
                    result.noise_image_ids[p] = img})

MemberCount(result) ==
    LET S[k \in 0..Len(result.clusters)] ==
            IF k = 0 THEN 0 ELSE S[k - 1] + Len(result.clusters[k].image_ids)
    IN S[Len(result.clusters)]

\* C7: in every result the member counts of the clusters and the number of
\* noise ids add up to the number of points, and the id of every input
\* position is in exactly one cluster or in the noise list, once.
C7_Partition ==
    \A x \in Results :
        LET req == served[x.by].request IN
        /\ MemberCount(x.result) + Len(x.result.noise_image_ids) = req.n
        /\ \A i \in 1..req.n : Occurrences(x.result, req.image_ids[i]) = 1

\* A result with two clusters and a noise point.
C7_Witness ==
    \E x \in Results :
        /\ Len(x.result.clusters) = 2
        /\ Len(x.result.noise_image_ids) >= 1

\* C8 (as claimed): the min_cluster_size of params_used is at least 2 and at
\* most half of the number of points, rounded down.
C8_ClampedToHalf ==
    \A x \in Results :
        LET n == served[x.by].request.n
            mcs == x.result.params_used.hdbscan.min_cluster_size
        IN 2 <= mcs /\ mcs <= n \div 2

\* C8 (amended): the min_cluster_size of params_used is at least 2; with 4
\* points or more it is at most half of the number of points, rounded down;
\* with 2 or 3 points it is 2, which is more than half of them.
C8_ClampedFromFourPoints ==
    \A x \in Results :
        LET n == served[x.by].request.n
            mcs == x.result.params_used.hdbscan.min_cluster_size
        IN /\ 2 <= mcs
           /\ n >= 4 => mcs <= n \div 2
           /\ n <= 3 => mcs = 2

\* A request for 3 over 4 or 5 points, answered with 2.
C8_Witness ==
    \E x \in Results :
        /\ served[x.by].request.n \in {4, 5}
        /\ served[x.by].request.hdbscan_params.min_cluster_size = 3
        /\ x.result.params_used.hdbscan.min_cluster_size = 2

ReducerCallsBy(by) == SelectSeq(reducer_calls, LAMBDA call : call.by = by)
ClustererCallsBy(by) == SelectSeq(clusterer_calls, LAMBDA call : call.by = by)

\* C9 (as claimed): the reduction is used (params_used.umap is not None)
\* exactly when it is enabled and there are more points than n_components;
\* when it is not enabled or there are no more points than n_components the
\* reducer is never built and params_used.umap is None.
C9_UsedIffSelected ==
    \A by \in DOMAIN served :
        LET req == served[by].request
            selected == req.umap_params.enabled /\ req.n > req.umap_params.n_components
        IN /\ ~selected => ReducerCallsBy(by) = <<>>
           /\ HasResult(by) => (ResultOf(by).params_used.umap # None <=> selected)

\* C9 (amended): the reduction is used exactly when it is enabled, there are
\* more points than n_components and the reducer returned without raising;
\* when it is not enabled or there are no more points than n_components the
\* reducer is never built and params_used.umap is None.
C9_UsedIffSelectedAndReduced ==
    \A by \in DOMAIN served :
        LET req == served[by].request
            selected == req.umap_params.enabled /\ req.n > req.umap_params.n_components
        IN /\ ~selected => ReducerCallsBy(by) = <<>> /\ served[by].reducer = "none"
           /\ HasResult(by) =>
                (ResultOf(by).params_used.umap # None
                    <=> selected /\ served[by].reducer = "ok")

\* A result of a request with the reduction enabled and more points than
\* n_components, computed without the reduction because umap raised
\* ImportError.
C9_Witness ==
    \E by \in DOMAIN served :
        /\ HasResult(by)
        /\ served[by].request.umap_params.enabled
        /\ served[by].request.n > served[by].request.umap_params.n_components
        /\ served[by].reducer = "import_error"
        /\ ResultOf(by).params_used.umap = None

\* C10: when the reduction ran, the clusterer is built with metric
\* "euclidean" and params_used echoes "euclidean", whatever was requested.
C10_EuclideanAfterReduction ==
    \A by \in DOMAIN served :
        served[by].reducer = "ok" =>
            /\ \A k \in 1..Len(ClustererCallsBy(by)) :
                    ClustererCallsBy(by)[k].args.metric = "euclidean"
            /\ HasResult(by) => ResultOf(by).params_used.hdbscan.metric = "euclidean"

\* A router result after a reduction for a request that asked for cosine.
C10_Witness ==
    \E by \in DOMAIN served :
        /\ by # "stream"
        /\ served[by].reducer = "ok"
        /\ served[by].request.hdbscan_params.metric = "cosine"
        /\ HasResult(by)
        /\ Len(ClustererCallsBy(by)) = 1

\* The call of this caller is over: the synchronous answer is there, the
\* generator has ended, the coroutine has ended.
Ended(by) ==
    IF by = "sync" THEN sync_resp # None
    ELSE IF by = "stream" THEN stream.pc = "done"
    ELSE bg[by].pc = "done"

\* C11 (as claimed): on every entry point, when the reduction was selected
\* and the reduction library failed, the call still ends with a result
\* (unless the clusterer itself raised), computed with the caller's metric
\* and with params_used.umap None; an async job is stored completed.
C11_ReductionFailureNonFatal ==
    \A by \in DOMAIN served :
        (/\ served[by].reducer \in {"import_error", "error"}
         /\ served[by].clusterer # "error"
         /\ Ended(by))
            => /\ HasResult(by)
               /\ ResultOf(by).params_used.umap = None
               /\ ResultOf(by).params_used.hdbscan.metric
                    = served[by].request.hdbscan_params.metric
               /\ by \in DOMAIN task_store => task_store[by].status = "completed"

\* C12 (as claimed): whenever the reduction ran, the umap group of
\* params_used holds the values the reducer was built with: n_components is
\* the smaller of the requested one and the dimension of the embeddings,
\* n_neighbors the smaller of the requested one and the number of points
\* less one.
C12_EffectiveReductionParams ==
    \A x \in Results :
        x.result.params_used.umap # None =>
            LET req == served[x.by].request
                used == x.result.params_used.umap[1]
                nc == IF req.umap_params.n_components <= req.dim
                      THEN req.umap_params.n_components ELSE req.dim
                nn == IF req.umap_params.n_neighbors <= req.n - 1
                      THEN req.umap_params.n_neighbors ELSE req.n - 1
            IN /\ used.n_components = nc
               /\ used.n_neighbors = nn
               /\ \A k \in 1..Len(ReducerCallsBy(x.by)) :
                    /\ ReducerCallsBy(x.by)[k].args.n_components = used.n_components
                    /\ ReducerCallsBy(x.by)[k].args.n_neighbors = used.n_neighbors

\* Fewer than 2 embeddings, or not as many image ids as embeddings.
InvalidInput(req) == req.n < 2 \/ Len(req.image_ids) # req.n

\* C13 (as claimed): on every entry point an input with fewer than 2 points
\* or with a different number of image ids is rejected before any stage
\* runs: the synchronous request is answered 400, the stream yields no
\* progress update, and submit itself refuses it, so that there is no record
\* for it, no callback event and no status clustering.
C13_InvalidInputRejectedFirst ==
    \A by \in DOMAIN served :
        InvalidInput(served[by].request) =>
            /\ ReducerCallsBy(by) = <<>> /\ ClustererCallsBy(by) = <<>>
            /\ by = "sync" => sync_resp[1].code = 400
            /\ by = "stream" =>
                    \A i \in 1..Len(stream_out) : stream_out[i].status # "clustering"
            /\ by \in TaskIds =>
                    /\ by \notin DOMAIN task_store
                    /\ EventsOf(by) = <<>>
                    /\ \A x \in submitted : x.task_id # by

\* ------------------------------------------------ several jobs, scheduled

\* The submissions of the behaviours with more than one job: a job without
\* and one with the reduction, one with no embeddings, one with an image id
\* missing; all with embeddings of dimension 2, each with a go_task_id of
\* its own.
JobCalls ==
    { [entry |-> "async",
       request |-> [q EXCEPT !.go_task_id =
                        7 + q.n + (IF q.umap_params.enabled THEN 10 ELSE 0)],
       labels |-> SomeLabels(q.n)] :
        q \in { r \in RequestsOf({3}, {3}, {DefaultUmap, [DefaultUmap EXCEPT !.enabled = TRUE]},
                                 {DefaultHdbscan})
                      \cup RequestsOf({0}, {0}, {DefaultUmap}, {DefaultHdbscan})
                      \cup RequestsOf({2}, {1}, {DefaultUmap}, {DefaultHdbscan}) :
                 r.dim = 2 } }

\* One or two submissions are to come; the job table is empty.
JobsInit ==
    /\ \E c1, c2 \in JobCalls : todo = {c1, c2}
    /\ served = <<>>
    /\ task_store = <<>>
    /\ bg = <<>>
    /\ submitted = {}
    /\ poll_resp = None
    /\ posts = <<>>
    /\ callback_failed = {}
    /\ sync_resp = None
    /\ stream = [pc |-> "idle"]
    /\ stream_out = <<>>
    /\ reducer_calls = <<>>
    /\ clusterer_calls = <<>>

\* One step of the background coroutine of a task: the event loop resumes it
\* when the POST, or the executor's future, it awaits is over.
BackgroundStep(task_id) ==
    \/ RunClusteringAsync(task_id)
    \/ \E outcome \in PostOutcomes : AfterStartPost(task_id, outcome)
    \/ \E outcome \in PostOutcomes, lib \in LibOutcomes : AfterUmapPost(task_id, outcome, lib)
    \/ \E r \in ReducerOutcomes : ReducerReturns(task_id, r)
    \/ \E outcome \in PostOutcomes : AfterHdbscanPost(task_id, outcome)
    \/ \E r \in ClustererOutcomes : ClustererReturns(task_id, r)
    \/ \E outcome \in PostOutcomes : AfterAssemblePost(task_id, outcome)
    \/ \E outcome \in PostOutcomes : AfterCompletedPost(task_id, outcome)
    \/ \E outcome \in PostOutcomes : AfterFailedPost(task_id, outcome)

JobsNext ==
    \/ \E c \in todo, task_id \in TaskIds : SubmitClustering(c, task_id)
    \/ \E task_id \in TaskIds : BackgroundStep(task_id)

\* BackgroundTasks runs every task added by submit, the POST has a timeout of
\* 10 seconds and the executor's future ends when the library call does: a
\* coroutine that can go on does.
JobsSpec ==
    JobsInit /\ [][JobsNext]_vars /\ \A task_id \in TaskIds : WF_vars(BackgroundStep(task_id))

\* C14: a step in which submit returns adds exactly one record, under an id
\* that was not in the job table, with status pending, progress 0 and no
\* result and no error; it returns that id with status pending; it leaves
\* every other record as it was; and at that moment no stage of the new job
\* has started: its coroutine has not run, nothing was POSTed for it and no
\* reducer or clusterer was built for it.
C14_SubmitStoresPending ==
    [][(\E c \in todo : c.entry = "async" /\ todo' = todo \ {c}) =>
        \E t \in TaskIds :
            /\ t \notin DOMAIN task_store
            /\ DOMAIN task_store' = DOMAIN task_store \cup {t}
            /\ \A u \in DOMAIN task_store : task_store'[u] = task_store[u]
            /\ task_store'[t].status = "pending"
            /\ task_store'[t].progress = 0
            /\ task_store'[t].result = None
            /\ task_store'[t].error = None
            /\ submitted' = submitted \cup {[task_id |-> t, status |-> "pending"]}
            /\ \A x \in submitted : x.task_id # t
            /\ bg'[t].pc = "queued"
            /\ \A i \in 1..Len(posts') : posts'[i].python_task_id # t
            /\ \A i \in 1..Len(reducer_calls') : reducer_calls'[i].by # t
            /\ \A i \in 1..Len(clusterer_calls') : clusterer_calls'[i].by # t]_vars

\* A second job was submitted while the first had reached clustering or had
\* ended: its record is pending and its coroutine has not run.
C14_Witness ==
    \E t, u \in DOMAIN task_store :
        /\ t # u
        /\ task_store[t].status # "pending"
        /\ task_store[u].status = "pending"
        /\ bg[u].pc = "queued"
        /\ Cardinality(submitted) = 2

\* C15: a get_status call changes nothing but its own answer: the job table,
\* the coroutines and the callback log stay as they are; for an id in the
\* table the answer is 200 with the record's status, progress, message,
\* result and error; for any other id it is 404 and no record appears.
C15_GetStatusReadOnly ==
    [][poll_resp' # poll_resp =>
        /\ task_store' = task_store
        /\ bg' = bg /\ posts' = posts /\ submitted' = submitted
        /\ \E t \in TaskIds :
            /\ poll_resp'[1].task_id = t
            /\ IF t \in DOMAIN task_store
               THEN /\ poll_resp'[1].code = 200
                    /\ poll_resp'[1].status = task_store[t].status
                    /\ poll_resp'[1].progress = task_store[t].progress
                    /\ poll_resp'[1].message = task_store[t].message
                    /\ poll_resp'[1].result = task_store[t].result
                    /\ poll_resp'[1].error = task_store[t].error
               ELSE /\ poll_resp'[1].code = 404
                    /\ t \notin DOMAIN task_store']_vars

\* An unknown id was asked for while a job was running: 404, and the table
\* holds that one job only.
C15_Witness ==
    /\ poll_resp # None
    /\ poll_resp[1].code = 404
    /\ \E t \in DOMAIN task_store :
        /\ DOMAIN task_store = {t}
        /\ task_store[t].status = "clustering"
        /\ poll_resp[1].task_id # t

\* What the record of an ended job holds, as a function of the request, the
\* labels and how the reducer and the clusterer ended, and of nothing else.
OutcomeOf(by) ==
    LET req == served[by].request
        used == served[by].reducer = "ok"
        Failed(e) == [status |-> "failed", result |-> None, error |-> Some(e)]
    IN IF Len(req.image_ids) # req.n THEN Failed(ErrLength)
       ELSE IF req.n < 2 THEN Failed(ErrTooFew)
       ELSE IF served[by].reducer = "error" THEN Failed(ErrReducer)
       ELSE IF served[by].clusterer = "error" THEN Failed(ErrClusterer)
       ELSE [status |-> "completed",
             result |-> Some(AssembleResult(req, served[by].labels,
                                            RouterMetric(used, req), used)),
             error |-> None]

\* C16: the status, result and error a job ends with are determined by its
\* input and by how the reducer and the clusterer ended, whatever happened
\* to its callback POSTs; in particular a job whose stages did not raise
\* ends completed also when a POST raised or timed out.
C16_CallbackOutcomeIrrelevant ==
    \A t \in DOMAIN task_store :
        bg[t].pc = "done" =>
            /\ task_store[t].status = OutcomeOf(t).status
            /\ task_store[t].result = OutcomeOf(t).result
            /\ task_store[t].error = OutcomeOf(t).error

\* A job that went through the reduction and whose record holds the result,
\* although one of its five POSTs raised or timed out.
C16_Witness ==
    \E t \in DOMAIN task_store :
        /\ bg[t].pc = "done"
        /\ t \in callback_failed
        /\ served[t].reducer = "ok"
        /\ task_store[t].result # None
        /\ Len(EventsOf(t)) = 5

\* C17: for every job each event is POSTed at most once, also when the POST
\* raised or timed out: no two POSTs of a job carry the same status and
\* progress, and there are at most as many as the events of a full run; and
\* for every job at most one reducer and at most one clusterer is built and
\* the result is assembled and reported at most once.
C17_NothingRetried ==
    \A t \in DOMAIN task_store :
        LET events == EventsOf(t) IN
        /\ \A i, j \in 1..Len(events) :
                (/\ events[i].status = events[j].status
                 /\ events[i].progress = events[j].progress) => i = j
        /\ Len(events) <= 5
        /\ Len(ReducerCallsBy(t)) <= 1
        /\ Len(ClustererCallsBy(t)) <= 1
        /\ Cardinality({i \in 1..Len(events) : events[i].result # None}) <= 1

\* A job whose reducer raised and one of whose POSTs raised or timed out:
\* it ended after three POSTs and one reducer.
C17_Witness ==
    \E t \in DOMAIN task_store :
        /\ bg[t].pc = "done"
        /\ t \in callback_failed
        /\ served[t].reducer = "error"
        /\ Len(EventsOf(t)) = 3
        /\ Len(ReducerCallsBy(t)) = 1

\* C18 (as claimed): while the POST of an event of a job is under way, the
\* status, progress and message of its body are those of the job's record,
\* which the same report_* call has just written; the failed event included.
C18_CallbackMirrorsStore ==
    \A t \in DOMAIN task_store :
        bg[t].sending # None =>
            /\ bg[t].sending[1].status = task_store[t].status
            /\ bg[t].sending[1].progress = task_store[t].progress
            /\ bg[t].sending[1].message = task_store[t].message

\* The exceptions raised so far inside the try block of a job's coroutine:
\* by the input checks (once the coroutine is past them), by the reducer, by
\* the clusterer.
RaisedIn(t) ==
    LET req == served[t].request IN
    {e \in {ErrLength} : bg[t].pc \notin {"queued", "post_start"}
                            /\ Len(req.image_ids) # req.n}
    \cup {e \in {ErrTooFew} : bg[t].pc \notin {"queued", "post_start"}
                            /\ Len(req.image_ids) = req.n /\ req.n < 2}
    \cup {e \in {ErrReducer} : served[t].reducer = "error"}
    \cup {e \in {ErrClusterer} : served[t].clusterer = "error"}

\* C19: once a stage of a job has raised, the record is failed with the
\* exception's message as error and without a result, and stays so; nothing
\* with status completed is ever POSTed for it; and when its coroutine has
\* ended, exactly one failed notification was attempted, carrying that
\* error.
C19_FailureRecorded ==
    \A t \in DOMAIN task_store :
        \A e \in RaisedIn(t) :
            LET events == EventsOf(t)
                failed == {i \in 1..Len(events) : events[i].status = "failed"}
            IN /\ task_store[t].status = "failed"
               /\ task_store[t].error = Some(e)
               /\ task_store[t].result = None
               /\ \A i \in 1..Len(events) : events[i].status # "completed"
               /\ \A i \in failed : events[i].error = Some(e)
               /\ Cardinality(failed) <= 1
               /\ bg[t].pc = "done" => Cardinality(failed) = 1

\* A job whose clusterer raised after a reduction: the record and the last
\* of its four POSTs carry the clusterer's error.
C19_Witness ==
    \E t \in DOMAIN task_store :
        /\ bg[t].pc = "done"
        /\ served[t].reducer = "ok"
        /\ served[t].clusterer = "error"
        /\ task_store[t].error = Some(ErrClusterer)
        /\ Len(EventsOf(t)) = 4
        /\ EventsOf(t)[4].status = "failed"

\* C20: every job in the job table eventually has status completed or
\* failed, given that its coroutine is resumed whenever it can go on; and no
\* step takes a job out of the table or sets its coroutine back.
C20_EveryJobEnds ==
    /\ \A t \in TaskIds :
        (t \in DOMAIN task_store)
            ~> (t \in DOMAIN task_store /\ task_store[t].status \in Terminal)
    /\ [][\A t \in DOMAIN task_store :
            /\ t \in DOMAIN task_store'
            /\ bg[t].pc = "done" => bg'[t].pc = "done"
            /\ bg[t].pc # "queued" => bg'[t].pc # "queued"]_vars

\* Two jobs have ended, one completed and one failed.
C20_Witness ==
    \E t, u \in DOMAIN task_store :
        /\ bg[t].pc = "done" /\ bg[u].pc = "done"
        /\ task_store[t].status = "completed"
        /\ task_store[u].status = "failed"

\* A record, or a get_status answer, whose status, progress, result and
\* error fit together.
ConsistentRecord(r) ==
    /\ r.status = "completed" <=> r.result # None
    /\ r.status = "completed" => r.progress = 100 /\ r.error = None
    /\ r.status = "failed" <=> r.error # None
    /\ r.status = "failed" => r.result = None
    /\ r.status \in {"pending", "clustering"} => r.result = None /\ r.error = None

\* C21: at every moment, between any two steps of the background task,
\* every record of the job table and the answer of the last get_status call
\* are consistent: completed exactly with a result (and then progress 100
\* and no error), failed exactly with an error (and then no result), pending
\* and clustering with neither.
C21_ConsistentSnapshot ==
    /\ \A t \in DOMAIN task_store : ConsistentRecord(task_store[t])
    /\ (poll_resp # None /\ poll_resp[1].code = 200) => ConsistentRecord(poll_resp[1])

\* A poll answered completed, with the result, while the POST of the
\* completed event is still under way.
C21_Witness ==
    \E t \in DOMAIN task_store :
        /\ bg[t].pc = "post_completed"
        /\ poll_resp = Some(StatusResponse(t))
        /\ poll_resp[1].status = "completed"
        /\ poll_resp[1].result # None

\* The status and progress the record of a job holds when its coroutine is
\* suspended at pc, if the last write of the job itself is the one in the
\* record; a failed job keeps the progress it had.
LastWriteOf(pc) ==
    CASE pc = "queued" -> <<"pending", 0>>
      [] pc = "post_start" -> <<"clustering", 10>>
      [] pc \in {"post_umap", "reducing"} -> <<"clustering", 30>>
      [] pc \in {"post_hdbscan", "clustering"} -> <<"clustering", 60>>
      [] pc = "post_assemble" -> <<"clustering", 90>>
      [] pc = "post_completed" -> <<"completed", 100>>
      [] OTHER -> <<"failed", 0>>

\* C22: with several jobs interleaved in any order, a step of the coroutine
\* of one job changes no other job's record and no other coroutine; no
\* write is lost: every record shows what its own job wrote last; and every
\* job ends with the status, result and error that its own input and its
\* own reducer and clusterer outcomes give, as when it runs alone.
C22_JobsDoNotInterfere ==
    /\ [][\A t, u \in DOMAIN task_store :
            (t # u /\ bg'[t] # bg[t]) =>
                /\ task_store'[u] = task_store[u]
                /\ bg'[u] = bg[u]]_vars
    /\ [](\A t \in DOMAIN task_store :
            /\ bg[t].pc \notin {"post_failed", "done"} =>
                    /\ task_store[t].status = LastWriteOf(bg[t].pc)[1]
                    /\ task_store[t].progress = LastWriteOf(bg[t].pc)[2]
            /\ bg[t].pc = "post_failed" => task_store[t].status = "failed"
            /\ bg[t].pc = "done" =>
                    /\ task_store[t].status = OutcomeOf(t).status
                    /\ task_store[t].result = OutcomeOf(t).result
                    /\ task_store[t].error = OutcomeOf(t).error)

\* Two jobs under way at once, one waiting for its reducer and one for the
\* POST of 90.
C22_Witness ==
    \E t, u \in DOMAIN task_store :
        /\ t # u
        /\ bg[t].pc = "reducing"
        /\ bg[u].pc = "post_assemble"
        /\ task_store[t].progress = 30
        /\ task_store[u].progress = 90

\* The <<status, progress>> pairs of a sequence of events.
Marks(events) == [i \in 1..Len(events) |-> <<events[i].status, events[i].progress>>]

IsPrefix(a, b) == Len(a) <= Len(b) /\ \A i \in 1..Len(a) : a[i] = b[i]

\* C23 (as claimed): 10 is reported only if the reduction is used, and 30
\* when the reduction is complete; then 60, 90 and 100 in this order.
C23_CheckpointsAsClaimed ==
    \A t \in DOMAIN task_store :
        LET req == served[t].request
            marks == Marks(EventsOf(t))
        IN /\ (\E i \in 1..Len(marks) : marks[i][2] = 10)
                => (req.umap_params.enabled /\ req.n > req.umap_params.n_components)
           /\ (\E i \in 1..Len(marks) : marks[i][2] = 30) => served[t].reducer = "ok"
           /\ \A i, j \in 1..Len(marks) :
                (i < j /\ marks[j][1] # "failed") => marks[i][2] < marks[j][2]

\* The checkpoints of a run that does not raise: 10 at the start, 30 if the
\* reduction is selected, 60, 90, and for the job 100 with status completed.
CheckpointsOf(req) ==
    <<(<<"clustering", 10>>)>>
    \o (IF req.umap_params.enabled /\ req.n > req.umap_params.n_components
        THEN <<(<<"clustering", 30>>)>> ELSE <<>>)
    \o <<(<<"clustering", 60>>), (<<"clustering", 90>>)>>

\* C23 (amended): 10 is reported at the start of every run, before the input
\* is checked; 30 only if the reduction is selected, before the reducer is
\* built; 60 before the clusterer is built; 90 when the clusterer has
\* returned, before the result is assembled; 100 with status completed.  A
\* job, or a cluster() call of the stream, that raises reports the
\* checkpoints up to the exception and then one failed event, in place of
\* the remaining ones.
C23_Checkpoints ==
    /\ \A t \in DOMAIN task_store :
        LET req == served[t].request
            marks == Marks(EventsOf(t))
            all == Append(CheckpointsOf(req), <<"completed", 100>>)
            n == Len(marks)
        IN /\ \/ IsPrefix(marks, all)
              \/ /\ n >= 2 /\ n <= Len(all)
                 /\ IsPrefix(SubSeq(marks, 1, n - 1), all)
                 /\ marks[n][1] = "failed"
           /\ bg[t].pc \notin {"queued", "done"} => n >= 1 \/ bg[t].pc = "post_start"
           /\ bg[t].pc = "post_umap" => ReducerCallsBy(t) = <<>>
           /\ bg[t].pc = "post_hdbscan" => ClustererCallsBy(t) = <<>>
           /\ bg[t].pc = "post_assemble" => served[t].clusterer = "ok"
           /\ bg[t].pc = "done" =>
                (marks[n][1] = "completed" <=> RaisedIn(t) = {})
    /\ stream.pc # "idle" =>
        /\ IsPrefix(Marks(stream.progress_list), CheckpointsOf(served["stream"].request))
        /\ Len(stream.progress_list) >= 1
        /\ stream.result # None =>
                Marks(stream.progress_list) = CheckpointsOf(served["stream"].request)
        /\ (stream.pc = "done" /\ stream.result = None) =>
                /\ Len(stream_out) = Len(stream.progress_list) + 1
                /\ IsPrefix(Marks(stream.progress_list), Marks(stream_out))
                /\ stream_out[Len(stream_out)].status = "failed"

\* A job without the reduction that completed: 10, 60, 90, 100.
C23_Witness ==
    \E t \in DOMAIN task_store :
        /\ bg[t].pc = "done"
        /\ Marks(EventsOf(t)) = <<(<<"clustering", 10>>), (<<"clustering", 60>>),
                                  (<<"clustering", 90>>), (<<"completed", 100>>)>>

\* C24 (as claimed): a progress update reaches the consumer of the stream
\* before the work that follows its checkpoint starts: when the last update
\* yielded is 10, no reducer has been built for the call; when it is 10, 30
\* or 60, no clusterer has been built and none has returned.
C24_StreamedIncrementally ==
    (stream_out # <<>> /\ stream_out[Len(stream_out)].status = "clustering") =>
        LET p == stream_out[Len(stream_out)].progress IN
        /\ p = 10 => ReducerCallsBy("stream") = <<>>
        /\ p <= 60 => /\ ClustererCallsBy("stream") = <<>>
                      /\ served["stream"].clusterer = "none"

\* C25: every callback body attempted, and every body about to be POSTed,
\* carries the id of a job of the table and the go_task_id that job was
\* submitted with; with a go_task_id of its own for every job, it therefore
\* carries the go_task_id of no other job.
C25_CorrelationIds ==
    LET Tagged(b) ==
            /\ b.python_task_id \in DOMAIN task_store
            /\ b.go_task_id = served[b.python_task_id].request.go_task_id
            /\ \A u \in DOMAIN task_store :
                    u # b.python_task_id => b.go_task_id # served[u].request.go_task_id
    IN /\ \A i \in 1..Len(posts) : Tagged(posts[i])
       /\ \A t \in DOMAIN bg :
            /\ bg[t].sending # None =>
                    Tagged(bg[t].sending[1]) /\ bg[t].sending[1].python_task_id = t
            /\ bg[t].pc \in {"post_start", "post_umap", "post_hdbscan", "post_assemble",
                             "post_completed", "post_failed"} => bg[t].sending # None

\* Two jobs with different go_task_ids have ended, one completed and one
\* failed, and the last POST of each was attempted.
C25_Witness ==
    \E i, j \in 1..Len(posts) :
        /\ posts[i].python_task_id # posts[j].python_task_id
        /\ posts[i].go_task_id # posts[j].go_task_id
        /\ posts[i].status = "completed"
        /\ posts[j].status = "failed"

\* C26 (as claimed): every reducer is built with an n_components strictly
\* below the dimension of the embeddings it is to reduce.
C26_TargetBelowDimension ==
    \A i \in 1..Len(reducer_calls) :
        reducer_calls[i].args.n_components < served[reducer_calls[i].by].request.dim

\* C27: in every result the cluster ids are exactly the labels other than
\* -1 that the clusterer returned, each once; the members of a cluster are
\* exactly the image ids of the points with its label, each once; and -1 is
\* no cluster id.
C27_NothingRenumbered ==
    \A x \in Results :
        LET cs == x.result.clusters
            labels == served[x.by].labels
            ids == served[x.by].request.image_ids
        IN /\ {cs[k].cluster_id : k \in 1..Len(cs)}
                = {labels[i] : i \in 1..Len(labels)} \ {-1}
           /\ \A k, m \in 1..Len(cs) : cs[k].cluster_id = cs[m].cluster_id => k = m
           /\ \A k \in 1..Len(cs) :
                /\ cs[k].cluster_id # -1
                /\ {cs[k].image_ids[p] : p \in 1..Len(cs[k].image_ids)}
                        = {ids[i] : i \in {j \in 1..Len(labels) :
                                                labels[j] = cs[k].cluster_id}}
                /\ Len(cs[k].image_ids)
                        = Cardinality({j \in 1..Len(labels) : labels[j] = cs[k].cluster_id})

\* The clusterer used the label 1 and not the label 0, and left a point as
\* noise: the one cluster of the result has id 1.
C27_Witness ==
    \E x \in Results :
        /\ Len(x.result.clusters) = 1
        /\ x.result.clusters[1].cluster_id = 1
        /\ Len(x.result.noise_image_ids) >= 1

\* C28 (as claimed): no progress update is yielded twice on a stream, also
\* when an exception is raised after the collected updates have begun to be
\* yielded.
C28_StreamEventsOnce ==
    \A i, j \in 1..Len(stream_out) :
        (/\ stream_out[i].status = stream_out[j].status
         /\ stream_out[i].progress = stream_out[j].progress) => i = j

\* C29: the record of a job is never behind what was POSTed for it, or is
\* about to be: after a completed or failed body the record has that
\* status, and the result or the error of the body; after a progress body
\* the record is clustering with at least that progress, or terminal; so a
\* get_status call made at any moment answers with a state at least as
\* advanced as the last callback.
C29_StoreBeforeCallback ==
    LET Covered(b) ==
            LET r == task_store[b.python_task_id] IN
            /\ b.status \in {"completed", "failed"} =>
                    r.status = b.status /\ r.result = b.result /\ r.error = b.error
            /\ b.status = "clustering" =>
                    /\ r.status \in {"clustering", "completed", "failed"}
                    /\ r.progress >= b.progress
            /\ r.progress >= b.progress
    IN /\ \A i \in 1..Len(posts) : Covered(posts[i])
       /\ \A t \in DOMAIN bg :
            bg[t].sending # None =>
                /\ Covered(bg[t].sending[1])
                /\ task_store[t].status = bg[t].sending[1].status

\* The record is ahead of the callback: it is completed and holds the
\* result while the last body POSTed is the progress 90.
C29_Witness ==
    \E t \in DOMAIN task_store :
        /\ task_store[t].status = "completed"
        /\ task_store[t].result # None
        /\ Len(EventsOf(t)) >= 1
        /\ EventsOf(t)[Len(EventsOf(t))].progress = 90

\* C30 (as claimed): whichever entry point computed a result, its
\* params_used is the one the synchronous request reports for the same
\* request and the same reducer outcome: min_cluster_size clamped to half of
\* the points and to 2, min_samples clamped to the points less one, the umap
\* group present exactly when the reducer ran, and the metric euclidean
\* after a reduction and the requested one otherwise.
C30_SameNormalisation ==
    \A x \in Results :
        LET req == served[x.by].request
            used == served[x.by].reducer = "ok"
            half == req.n \div 2
            mcs0 == IF req.hdbscan_params.min_cluster_size <= half
                    THEN req.hdbscan_params.min_cluster_size ELSE half
            pu == x.result.params_used
        IN /\ pu.hdbscan.min_cluster_size = (IF mcs0 >= 2 THEN mcs0 ELSE 2)
           /\ pu.hdbscan.min_samples =
                (IF req.hdbscan_params.min_samples = None THEN None
                 ELSE IF req.hdbscan_params.min_samples[1] <= req.n - 1
                 THEN req.hdbscan_params.min_samples
                 ELSE Some(req.n - 1))
           /\ pu.umap # None <=> used
           /\ pu.hdbscan.metric =
                (IF used THEN "euclidean" ELSE req.hdbscan_params.metric)

====
